---- MODULE Spec2Model ----
(***************************************************************************)
(* A model of concat.js: the exclusion-pattern matcher, the recursive tree *)
(* enumerator, the content renderer, the diagnostics parsers, the report   *)
(* assembler and the orchestrating async function.                         *)
(*                                                                         *)
(* Strings are sequences of symbols.  A symbol is a one-character string,  *)
(* or (in report text) an opaque token standing for a non-empty run of     *)
(* characters that holds no line break and no white space; "\n" and " "    *)
(* are symbols of their own, so split, join and trim act on them as the    *)
(* JavaScript methods act on characters.                                   *)
(***************************************************************************)
EXTENDS Integers, Sequences, FiniteSets, TLC

VARIABLES
    pc,             \* where the running function stands
    excludeFiles,   \* the module-level rule list (line 24)
    filePath,       \* argument of the last shouldIncludeFile call
    included,       \* its result (meaningful once the call is made)
    dirname,        \* __dirname, the project directory
    fsTree,         \* the directory tree under __dirname, as readdirSync lists it
    filePaths,      \* the list getFilePaths returned
    packageJson,    \* the file package.json in __dirname
    codeFiles,      \* the blocks getFileContentWithStructure returned
    summaryRuntimeErrors, \* the four diagnostic lists
    buildErrors,
    eslintErrors,
    typescriptErrors,
    summary,        \* the summary text
    output,         \* what generateOutput returned: [threw, text]
    calls,          \* generateOutput's calls so far: package.json then, and the result
    browser,        \* the puppeteer session: "none", "open" or "closed"
    runtimeErrors,  \* window.capturedErrors as page.evaluate returned it
    lintChild,      \* the ESLint child process and runCommand's promise for it
    tscChild,       \* the TypeScript child process and runCommand's promise for it
    outputFile,     \* the file output.md
    clipboard,      \* the system clipboard
    log,            \* what console.error and console.log printed, by message
    thrownAt        \* the step whose exception rejected the async function

matchVars == <<filePath, included>>
treeVars == <<dirname, fsTree, filePaths>>

diagVars == <<summaryRuntimeErrors, buildErrors, eslintErrors, typescriptErrors>>
reportVars == <<packageJson, codeFiles, diagVars, summary, output, calls>>

mainVars == <<browser, runtimeErrors, lintChild, tscChild, outputFile, clipboard, log,
              thrownAt>>

vars == <<pc, excludeFiles, matchVars, treeVars, reportVars, mainVars>>

----------------------------------------------------------------------------
(* String primitives of JavaScript, on sequences of symbols. *)

NL == "\n"

Strings(A, n) == UNION {[1..k -> A] : k \in 0..n}

Min(a, b) == IF a < b THEN a ELSE b

\* String.prototype.startsWith
StartsWith(s, p) == Len(p) <= Len(s) /\ SubSeq(s, 1, Len(p)) = p

\* String.prototype.endsWith
EndsWith(s, p) == Len(p) <= Len(s) /\ SubSeq(s, Len(s) - Len(p) + 1, Len(s)) = p

\* String.prototype.includes
Includes(s, p) == \E i \in 0..(Len(s) - Len(p)) : SubSeq(s, i + 1, i + Len(p)) = p

\* String.prototype.substring(n)
Substring(s, n) == SubSeq(s, n + 1, Len(s))

\* String.prototype.split(sep) for a one-symbol separator: never empty, "" gives <<"">>
RECURSIVE Split(_, _)
Split(s, sep) ==
    IF \A i \in 1..Len(s) : s[i] # sep
    THEN <<s>>
    ELSE LET k == CHOOSE i \in 1..Len(s) : s[i] = sep /\ \A j \in 1..(i - 1) : s[j] # sep
         IN  <<SubSeq(s, 1, k - 1)>> \o Split(SubSeq(s, k + 1, Len(s)), sep)

\* path.basename (POSIX): trailing separators are dropped, then the part after the
\* last separator is taken
RECURSIVE StripTrailingSep(_)
StripTrailingSep(p) ==
    IF p # <<>> /\ p[Len(p)] = "/" THEN StripTrailingSep(SubSeq(p, 1, Len(p) - 1)) ELSE p

basename(p) ==
    LET q == StripTrailingSep(p)
        S == {i \in 1..Len(q) : q[i] = "/"}
        last == IF S = {} THEN 0 ELSE CHOOSE i \in S : \A j \in S : j <= i
    IN  SubSeq(q, last + 1, Len(q))

\* Array.prototype.join(sep), sep a string
RECURSIVE Join(_, _)
Join(list, sep) ==
    IF list = <<>> THEN <<>>
    ELSE IF Len(list) = 1 THEN list[1]
         ELSE list[1] \o sep \o Join(Tail(list), sep)

\* String.prototype.trim
WhiteSpace == {" ", "\t", NL}

RECURSIVE TrimStart(_)
TrimStart(s) == IF s # <<>> /\ s[1] \in WhiteSpace THEN TrimStart(Tail(s)) ELSE s

RECURSIVE TrimEnd(_)
TrimEnd(s) ==
    IF s # <<>> /\ s[Len(s)] \in WhiteSpace THEN TrimEnd(SubSeq(s, 1, Len(s) - 1)) ELSE s

Trim(s) == TrimEnd(TrimStart(s))

\* [...new Set(list)]: the first occurrence of each value, in order
RECURSIVE Unique(_)
Unique(list) ==
    IF list = <<>> THEN <<>>
    ELSE LET init == Unique(SubSeq(list, 1, Len(list) - 1))
             x == list[Len(list)]
         IN  IF \E i \in 1..Len(init) : init[i] = x THEN init ELSE Append(init, x)

\* Array.prototype.slice(0, n)
SliceTo(list, n) == SubSeq(list, 1, Min(Len(list), n))

\* path.relative(from, to) for absolute POSIX paths
CommonPrefix(a, b) ==
    LET S == {k \in 0..Min(Len(a), Len(b)) : SubSeq(a, 1, k) = SubSeq(b, 1, k)}
    IN  CHOOSE k \in S : \A j \in S : j <= k

pathRelative(from, to) ==
    LET fs == SelectSeq(Split(from, "/"), LAMBDA x : x # <<>>)
        ts == SelectSeq(Split(to, "/"), LAMBDA x : x # <<>>)
        c == CommonPrefix(fs, ts)
        ups == [k \in 1..(Len(fs) - c) |-> <<".", ".">>]
    IN  Join(ups \o SubSeq(ts, c + 1, Len(ts)), <<"/">>)

----------------------------------------------------------------------------
(* The exclusion rules. *)

\* fs.existsSync and fs.readFileSync of a file: absent, or present with its text
NoFile == [exists |-> FALSE, text |-> <<>>]
FileOf(text) == [exists |-> TRUE, text |-> text]

\* Boolean(line) of filter(Boolean): an empty line is dropped
NonEmpty(s) == s # <<>>

\* readGitignore: the file's lines without the empty ones; no file, no rules
readGitignore(file) ==
    IF ~file.exists THEN <<>> ELSE SelectSeq(Split(file.text, NL), NonEmpty)

BuiltinExcludes ==
    <<
       <<"c", "o", "n", "c", "a", "t", ".", "j", "s">>,
       <<"p", "a", "c", "k", "a", "g", "e", "-", "l", "o", "c", "k", ".", "j", "s", "o", "n">>,
       <<"/", "n", "o", "d", "e", "_", "m", "o", "d", "u", "l", "e", "s">>,
       <<"/", "d", "i", "s", "t">>,
       <<"/", "b", "u", "i", "l", "d">>,
       <<"/", "g", "i", "t">>,
       <<"/", "f", "i", "r", "e", "b", "a", "s", "e">>,
       <<"/", "v", "s", "c", "o", "d", "e">>,
       <<"/", "c", "o", "v", "e", "r", "a", "g", "e">>,
       <<"*", ".", "j", "p", "g">>,
       <<"*", ".", "j", "p", "e", "g">>,
       <<"*", ".", "p", "n", "g">>,
       <<"*", ".", "g", "i", "f">>,
       <<"*", ".", "b", "m", "p">>,
       <<"*", ".", "s", "v", "g">>,
       <<"*", ".", "i", "c", "o">>,
       <<"*", ".", "t", "i", "f">>,
       <<"*", ".", "t", "i", "f", "f">>,
       <<"*", ".", "p", "s", "d">>,
       <<"*", ".", "a", "i">>,
       <<"*", ".", "e", "p", "s">>,
       <<"*", ".", "i", "n", "d", "d">>,
       <<"*", ".", "p", "d", "f">>,
       <<"*", ".", "d", "o", "c">>,
       <<"*", ".", "d", "o", "c", "x">>,
       <<"*", ".", "x", "l", "s">>,
       <<"*", ".", "x", "l", "s", "x">>,
       <<"*", ".", "p", "p", "t">>,
       <<"*", ".", "p", "p", "t", "x">>,
       <<"*", ".", "o", "d", "t">>,
       <<"*", ".", "o", "d", "s">>,
       <<"*", ".", "o", "d", "p">>,
       <<"*", ".", "m", "p", "3">>,
       <<"*", ".", "w", "a", "v">>,
       <<"*", ".", "a", "a", "c">>,
       <<"*", ".", "m", "4", "a">>,
       <<"*", ".", "m", "p", "4">>,
       <<"*", ".", "a", "v", "i">>,
       <<"*", ".", "m", "o", "v">>,
       <<"*", ".", "w", "m", "v">>,
       <<"*", ".", "f", "l", "v">>,
       <<"*", ".", "z", "i", "p">>,
       <<"*", ".", "r", "a", "r">>,
       <<"*", ".", "7", "z">>,
       <<"*", ".", "t", "a", "r">>,
       <<"*", ".", "g", "z">>,
       <<"*", ".", "b", "z", "2">>,
       <<"*", ".", "l", "o", "g">>,
       <<"*", ".", "d", ".", "t", "s">>,
       <<"*", ".", "m", "d">>
    >>

\* const excludeFiles = [...readGitignore(".gitignore"), ...built-in rules]
ExcludeFilesOf(file) == readGitignore(file) \o BuiltinExcludes

\* a matcher that tests a path-fragment rule against the base name only
PatternMatchesBaseOnly(pattern, path) ==
    IF StartsWith(pattern, <<"*", ".">>)
    THEN EndsWith(basename(path), Substring(pattern, 1))
    ELSE IF StartsWith(pattern, <<"/">>)
         THEN Includes(basename(path), Substring(pattern, 1))
         ELSE basename(path) = pattern

\* the callback of excludeFiles.some in shouldIncludeFile
PatternMatches(pattern, path) ==
    IF StartsWith(pattern, <<"*", ".">>)
    THEN EndsWith(basename(path), Substring(pattern, 1))
    ELSE IF StartsWith(pattern, <<"/">>)
         THEN Includes(path, Substring(pattern, 1))
         ELSE basename(path) = pattern

shouldIncludeFile(path, rules) ==
    ~ \E i \in 1..Len(rules) : PatternMatches(rules[i], path)

\* the report variables of a run that has not reached the report
NoOutput == [threw |-> FALSE, text |-> <<>>]

ReportIdle ==
    /\ packageJson = NoFile
    /\ codeFiles = <<>>
    /\ summaryRuntimeErrors = <<>> /\ buildErrors = <<>>
    /\ eslintErrors = <<>> /\ typescriptErrors = <<>>
    /\ summary = <<>>
    /\ output = NoOutput
    /\ calls = <<>>

\* a child process that was never spawned
NoChild == [state |-> "none", toWrite |-> <<>>, output |-> <<>>, promise |-> "none"]

\* the variables of the async function before it starts
MainIdle ==
    /\ browser = "none"
    /\ runtimeErrors = <<>>
    /\ lintChild = NoChild /\ tscChild = NoChild
    /\ outputFile = NoFile
    /\ clipboard = <<>>
    /\ log = <<>>
    /\ thrownAt = "none"

----------------------------------------------------------------------------
(* Bounds of the pattern-matcher specification. *)

MaxIgnoreLen == 3
MaxPathLen == 3

IgnoreChars == {"a", ".", "/", "*", NL}
PathChars == {"a", "i", ".", "/"}

IgnoreFiles == {NoFile} \cup {FileOf(t) : t \in Strings(IgnoreChars, MaxIgnoreLen)}
Paths == Strings(PathChars, MaxPathLen) \ {<<>>}

MatchInit ==
    /\ pc = "match"
    /\ \E f \in IgnoreFiles : excludeFiles = ExcludeFilesOf(f)
    /\ filePath \in Paths
    /\ included = TRUE
    /\ dirname = <<>> /\ fsTree = <<>> /\ filePaths = <<>>
    /\ ReportIdle
    /\ MainIdle

\* one call shouldIncludeFile(filePath)
CallShouldInclude ==
    /\ pc = "match"
    /\ included' = shouldIncludeFile(filePath, excludeFiles)
    /\ pc' = "matched"
    /\ UNCHANGED <<excludeFiles, filePath, treeVars, reportVars, mainVars>>

MatchNext == CallShouldInclude

SpecMatch == MatchInit /\ [][MatchNext]_vars

----------------------------------------------------------------------------
(* C1 *)

\* The three kinds of rule as the claim words them, position by position.
IsExtensionRule(r) == Len(r) >= 2 /\ r[1] = "*" /\ r[2] = "."
IsFragmentRule(r) == ~IsExtensionRule(r) /\ Len(r) >= 1 /\ r[1] = "/"

ClaimedMatch(r, p) ==
    LET b == basename(p)
        n == Len(r) - 1
    IN  IF IsExtensionRule(r)
        THEN Len(b) >= n /\ \A k \in 1..n : b[Len(b) - n + k] = r[k + 1]
        ELSE IF IsFragmentRule(r)
             THEN \E o \in 0..(Len(p) - n) : \A k \in 1..n : p[o + k] = r[k + 1]
             ELSE Len(b) = Len(r) /\ \A k \in 1..Len(r) : b[k] = r[k]

\* C1: shouldIncludeFile(P) is false exactly when some rule of the list matches P
\* under its syntactic kind (extension: base name ends with the rule minus "*";
\* fragment: the full path contains the rule minus "/"; otherwise: base name equals
\* the rule), and a rule that does not match P, added to the list, leaves the
\* result for P as it is without that rule.
C1_ExcludedIffSomeRuleMatches ==
    pc = "matched" =>
        /\ (included = FALSE) <=>
               (\E i \in 1..Len(excludeFiles) : ClaimedMatch(excludeFiles[i], filePath))
        /\ (excludeFiles # <<>> /\ ~ClaimedMatch(Head(excludeFiles), filePath)) =>
               included = shouldIncludeFile(filePath, Tail(excludeFiles))

\* A path excluded by a later rule while the first rule of the list, a fragment
\* rule read from the ignore file, does not match it.
C1_Witness ==
    /\ pc = "matched"
    /\ included = FALSE
    /\ Len(excludeFiles) > Len(BuiltinExcludes)
    /\ IsFragmentRule(Head(excludeFiles))
    /\ ~ClaimedMatch(Head(excludeFiles), filePath)

----------------------------------------------------------------------------
(* The file system and the tree enumerator. *)

\* A directory is the sequence of its entries in readdirSync's order; an entry is a
\* file with its text or a directory with its own entries.
File(name, text) == [name |-> name, isDir |-> FALSE, entries |-> <<>>, text |-> text]
Dir(name, entries) == [name |-> name, isDir |-> TRUE, entries |-> entries, text |-> <<>>]

\* path.join(dirPath, file) for an entry name (readdirSync gives no "." or "..", and
\* no name with a separator, so nothing else is normalised)
pathJoin(dirPath, file) ==
    IF dirPath # <<>> /\ dirPath[Len(dirPath)] = "/" THEN dirPath \o file
    ELSE dirPath \o <<"/">> \o file

\* an enumerator that tests directories against the rules too and skips the excluded ones
RECURSIVE getFilePathsPruning(_, _, _, _)
getFilePathsPruning(dirPath, listing, arrayOfFiles, rules) ==
    IF listing = <<>> THEN arrayOfFiles
    ELSE LET file == Head(listing)
             path == pathJoin(dirPath, file.name)
             next == IF ~shouldIncludeFile(path, rules) THEN arrayOfFiles
                     ELSE IF file.isDir /\ path # dirPath
                          THEN getFilePathsPruning(path, file.entries, arrayOfFiles, rules)
                          ELSE Append(arrayOfFiles, path)
         IN  getFilePathsPruning(dirPath, Tail(listing), next, rules)

\* getFilePaths(dirPath, arrayOfFiles): listing is readdirSync(dirPath)
RECURSIVE getFilePaths(_, _, _, _)
getFilePaths(dirPath, listing, arrayOfFiles, rules) ==
    IF listing = <<>> THEN arrayOfFiles
    ELSE LET file == Head(listing)
             path == pathJoin(dirPath, file.name)
             next == IF file.isDir /\ path # dirPath
                     THEN getFilePaths(path, file.entries, arrayOfFiles, rules)
                     ELSE IF shouldIncludeFile(path, rules)
                          THEN Append(arrayOfFiles, path)
                          ELSE arrayOfFiles
         IN  getFilePaths(dirPath, Tail(listing), next, rules)

----------------------------------------------------------------------------
(* Bounds of the enumerator specification. *)

MaxEntries == 3

EntryNames == {<<"a">>, <<"i">>, <<".", "a", "i">>}
ProjectDirs == {<<"/", "r">>, <<"/", "a">>}
TreeIgnoreFiles == {NoFile, FileOf(<<"/", "a">>), FileOf(<<"i", NL, ".", "a", "i">>)}

NamesOf(listing) == {listing[k].name : k \in 1..Len(listing)}

\* every listing of n entries in all (its own and its subdirectories'), the names of
\* one directory distinct
RECURSIVE Listings(_)
Listings(n) ==
    IF n = 0 THEN {<<>>}
    ELSE UNION {
           LET firsts == {Dir(nm, l) : nm \in EntryNames, l \in Listings(k)}
                           \cup (IF k = 0 THEN {File(nm, <<>>) : nm \in EntryNames} ELSE {})
           IN  {<<e>> \o rest : e \in firsts,
                                rest \in Listings(n - 1 - k)}
           : k \in 0..(n - 1)}

DistinctNames(listing) ==
    /\ \A i, j \in 1..Len(listing) : i # j => listing[i].name # listing[j].name

RECURSIVE WellFormed(_)
WellFormed(listing) ==
    /\ DistinctNames(listing)
    /\ \A i \in 1..Len(listing) : WellFormed(listing[i].entries)

Trees == {t \in UNION {Listings(n) : n \in 0..MaxEntries} : WellFormed(t)}

TreeInit ==
    /\ pc = "enumerate"
    /\ \E f \in TreeIgnoreFiles : excludeFiles = ExcludeFilesOf(f)
    /\ dirname \in ProjectDirs
    /\ fsTree \in Trees
    /\ filePaths = <<>>
    /\ filePath = <<>> /\ included = TRUE
    /\ ReportIdle
    /\ MainIdle

\* const filePaths = getFilePaths(__dirname)
CallGetFilePaths ==
    /\ pc = "enumerate"
    /\ filePaths' = getFilePaths(dirname, fsTree, <<>>, excludeFiles)
    /\ pc' = "enumerated"
    /\ UNCHANGED <<excludeFiles, matchVars, dirname, fsTree, reportVars, mainVars>>

TreeNext == CallGetFilePaths

SpecTree == TreeInit /\ [][TreeNext]_vars

----------------------------------------------------------------------------
(* C6 *)

\* every node of the tree with its full path, parents before children, siblings in
\* listing order
RECURSIVE PreOrder(_, _)
PreOrder(dirPath, listing) ==
    IF listing = <<>> THEN <<>>
    ELSE LET e == Head(listing)
             p == pathJoin(dirPath, e.name)
         IN  <<[path |-> p, isDir |-> e.isDir]>>
               \o PreOrder(p, e.entries)
               \o PreOrder(dirPath, Tail(listing))

Nodes == PreOrder(dirname, fsTree)

\* positions (in depth-first order) of the files that pass shouldIncludeFile
IncludedAt ==
    {k \in 1..Len(Nodes) :
        ~Nodes[k].isDir /\ shouldIncludeFile(Nodes[k].path, excludeFiles)}

\* C6: getFilePaths(root) on a finite tree returns exactly the files that pass
\* shouldIncludeFile, each once, in depth-first listing order, and no excluded file
\* and no directory; it descends into every directory, whatever its name.
C6_EnumeratesExactlyIncludedFiles ==
    pc = "enumerated" =>
        /\ Len(filePaths) = Cardinality(IncludedAt)
        /\ \A i \in 1..Len(filePaths) :
               \E k \in IncludedAt :
                   /\ Cardinality({j \in IncludedAt : j <= k}) = i
                   /\ filePaths[i] = Nodes[k].path
        /\ \A i, j \in 1..Len(filePaths) : i # j => filePaths[i] # filePaths[j]
        /\ \A i \in 1..Len(filePaths) : \A k \in 1..Len(Nodes) :
               Nodes[k].path = filePaths[i] => k \in IncludedAt

\* An included file found inside a directory whose own path matches a rule, in a
\* tree that also holds an excluded file.
C6_Witness ==
    /\ pc = "enumerated"
    /\ \E d, k \in 1..Len(Nodes) :
           /\ Nodes[d].isDir
           /\ ~shouldIncludeFile(StripTrailingSep(Nodes[d].path), excludeFiles)
           /\ StartsWith(Nodes[k].path, Nodes[d].path \o <<"/">>)
           /\ \E i \in 1..Len(filePaths) : filePaths[i] = Nodes[k].path
    /\ \E k \in 1..Len(Nodes) : ~Nodes[k].isDir /\ k \notin IncludedAt

----------------------------------------------------------------------------
(* JSON text and JavaScript values. *)

\* A value: t is its type, v its payload (a string's symbols, a number's digits, an
\* array's items, an object's <<key, value>> pairs in order).
JStr(str) == [t |-> "str", v |-> str]
JNum(n) == [t |-> "num", v |-> <<ToString(n)>>]
JNull == [t |-> "null", v |-> <<>>]
JUndefined == [t |-> "undefined", v |-> <<>>]
JArr(items) == [t |-> "arr", v |-> items]
JObj(pairs) == [t |-> "obj", v |-> pairs]

\* JSON.stringify, one symbol per punctuation mark
RECURSIVE JSONStringify(_)
JSONStringify(val) ==
    CASE val.t = "str" -> <<"\"">> \o val.v \o <<"\"">>
      [] val.t = "num" -> val.v
      [] val.t = "arr" ->
            <<"[">> \o Join([k \in 1..Len(val.v) |-> JSONStringify(val.v[k])], <<",">>)
                    \o <<"]">>
      [] val.t = "obj" ->
            <<"{">> \o Join([k \in 1..Len(val.v) |->
                               <<"\"", val.v[k][1], "\"", ":">> \o JSONStringify(val.v[k][2])],
                            <<",">>)
                    \o <<"}">>
      [] OTHER -> <<"null">>

\* obj.key: undefined when the object has no such property
Prop(obj, key) ==
    IF obj.t = "obj" /\ \E k \in 1..Len(obj.v) : obj.v[k][1] = key
    THEN obj.v[CHOOSE k \in 1..Len(obj.v) : obj.v[k][1] = key][2]
    ELSE JUndefined

\* `${val}` in a template literal (an array joins its items with ",", null and
\* undefined items as empty strings)
RECURSIVE ToText(_)
ToText(val) ==
    CASE val.t \in {"str", "num"} -> val.v
      [] val.t = "null" -> <<"null">>
      [] val.t = "undefined" -> <<"undefined">>
      [] val.t = "obj" -> <<"[object Object]">>
      [] OTHER ->
            Join([k \in 1..Len(val.v) |->
                    IF val.v[k].t \in {"null", "undefined"} THEN <<>> ELSE ToText(val.v[k])],
                 <<",">>)

\* the documents of a set, each with its serialization
JsonTable(values) == {<<JSONStringify(val), val>> : val \in values}

\* JSON.parse over the documents the model draws: a text parses when it is the
\* serialization of one of them, and is a SyntaxError otherwise
JSONParseIn(table, text) ==
    LET M == {p \in table : p[1] = text}
    IN  IF M = {} THEN [ok |-> FALSE, value |-> JUndefined]
        ELSE [ok |-> TRUE, value |-> (CHOOSE p \in M : TRUE)[2]]

----------------------------------------------------------------------------
(* The report assembler. *)

ShownErrors == 5

PkgDoc(name, version) ==
    JObj(<< <<"name", JStr(<<name>>)>>, <<"version", JStr(<<version>>)>> >>)

PackageDocs ==
    {PkgDoc("p1", "1"), PkgDoc("p1", "2"), PkgDoc("p2", "1"),
     JObj(<< <<"version", JStr(<<"1">>)>> >>), JNull}

PackageTable == JsonTable(PackageDocs)

PackageFiles ==
    {NoFile, FileOf(<<"{">>)} \cup {FileOf(JSONStringify(d)) : d \in PackageDocs}

\* getProjectName() with package.json as it is in `file`: the value returned, or
\* threw (JSON.parse of a malformed file, or .name of null)
projectNameIn(file) ==
    IF file.exists
    THEN LET parsed == JSONParseIn(PackageTable, file.text)
         IN  IF ~parsed.ok \/ parsed.value.t = "null"
             THEN [threw |-> TRUE, value |-> JUndefined]
             ELSE [threw |-> FALSE, value |-> Prop(parsed.value, "name")]
    ELSE [threw |-> FALSE, value |-> JStr(<<"Unknown Project">>)]

getProjectName == projectNameIn(packageJson)

\* a section cut one entry short
CappedSectionShort(list, sentinel) ==
    IF Len(list) > 0 THEN Join(SliceTo(list, ShownErrors - 1), <<NL>>) ELSE <<sentinel>>

\* list.length > 0 ? list.slice(0, 5).join("\n") : sentinel
CappedSection(list, sentinel) ==
    IF Len(list) > 0 THEN Join(SliceTo(list, ShownErrors), <<NL>>) ELSE <<sentinel>>

\* list.length > 0 ? list.join("\n") : sentinel
FullSection(list, sentinel) ==
    IF Len(list) > 0 THEN Join(list, <<NL>>) ELSE <<sentinel>>

Preamble ==
    <<"# Overview", NL,
      "This file provides a summary of the codebase, including code files. Please provide the updated and", NL,
      "fixed code for each distinct file that requires changes to fix intentionally introduced errors", NL,
      "(runtime, build, ESLint, and TypeScript), along with concise corrections. Do not include files", NL,
      "that do not require any changes.", NL,
      NL>>

\* an assembler that stamps the document with the number of documents made before it
generateOutputStamped(files, runtime, build, eslint, typescript, summ) ==
    [threw |-> getProjectName.threw,
     text |-> <<"# Report ", ToString(Len(calls)), NL>> \o Join(Unique(files), <<NL>>)]

\* generateOutput(codeFiles, runtimeErrors, buildErrors, eslintErrors,
\* typescriptErrors, summary): the document, or threw when getProjectName threw
generateOutput(files, runtime, build, eslint, typescript, summ) ==
    LET uniqueCodeFiles == Unique(files)
        project == getProjectName
    IN  IF project.threw THEN [threw |-> TRUE, text |-> <<>>]
        ELSE [threw |-> FALSE,
              text |->
                Preamble
                \o <<"## Summary", NL>> \o summ \o <<NL, NL>>
                \o <<"# Project: ">> \o ToText(project.value) \o <<NL, NL>>
                \o <<"## Code Files", NL, NL>>
                \o Join(uniqueCodeFiles, <<NL>>) \o <<NL, NL>>
                \o <<"## Runtime Errors", NL, NL>>
                \o CappedSection(runtime, "No runtime errors found.") \o <<NL, NL>>
                \o <<"## Build Errors", NL, NL>>
                \o CappedSection(build, "No build errors found.") \o <<NL, NL>>
                \o <<"## ESLint Errors", NL, NL>>
                \o CappedSection(eslint, "No ESLint errors found.") \o <<NL, NL>>
                \o <<"## TypeScript Errors", NL, NL>>
                \o FullSection(typescript, "No TypeScript errors found.") \o <<NL>>]

----------------------------------------------------------------------------
(* The assembler on its own: two calls with the same arguments, package.json
   free to be rewritten between them. *)

MaxDiag == 6

DiagEntries == {<<"x">>, <<"y", NL, "z">>}
DiagLists == Strings(DiagEntries, MaxDiag)

\* the lists of the three categories not under test
RuntimeOther == <<<<"- E", NL, "  at f">>>>
BuildOther == <<>>
EslintOther == <<<<"[", "a", "] Line ", "1", ": ", "m", " (", "r", ")">>>>
TypescriptOther == <<<<"a.ts(1,1): ", "error TS", "1: m">>, <<"b.ts(1,1): ", "error TS", "2: m">>>>

BlockSamples ==
    {<<>>,
     <<<<"[", "a", "]", NL, "x", NL, "...", NL>>, <<>>,
       <<"[", "a", "]", NL, "x", NL, "...", NL>>>>}

SummarySample == <<"- Total files: ", "2", NL, "- Lines of code: ", "4">>

ReportInit ==
    /\ pc = "assemble"
    /\ packageJson \in PackageFiles
    /\ codeFiles \in BlockSamples
    /\ \E l \in DiagLists : \E focus \in 1..4 :
           /\ summaryRuntimeErrors = IF focus = 1 THEN l ELSE RuntimeOther
           /\ buildErrors = IF focus = 2 THEN l ELSE BuildOther
           /\ eslintErrors = IF focus = 3 THEN l ELSE EslintOther
           /\ typescriptErrors = IF focus = 4 THEN l ELSE TypescriptOther
    /\ summary = SummarySample
    /\ output = NoOutput
    /\ calls = <<>>
    /\ excludeFiles = <<>>
    /\ filePath = <<>> /\ included = TRUE
    /\ dirname = <<>> /\ fsTree = <<>> /\ filePaths = <<>>
    /\ MainIdle

\* one call of generateOutput with the arguments of the state
CallGenerateOutput ==
    /\ pc = "assemble"
    /\ Len(calls) < 2
    /\ output' = generateOutput(codeFiles, summaryRuntimeErrors, buildErrors,
                                eslintErrors, typescriptErrors, summary)
    /\ calls' = Append(calls, [pkg |-> packageJson, out |-> output'])
    /\ UNCHANGED <<pc, excludeFiles, matchVars, treeVars, packageJson, codeFiles,
                   diagVars, summary, mainVars>>

\* package.json is rewritten (or removed) by something else between the two calls
RewritePackageJson ==
    /\ pc = "assemble"
    /\ Len(calls) = 1
    /\ packageJson' \in PackageFiles \ {packageJson}
    /\ UNCHANGED <<pc, excludeFiles, matchVars, treeVars, codeFiles, diagVars,
                   summary, output, calls, mainVars>>

ReportNext == CallGenerateOutput \/ RewritePackageJson

SpecReport == ReportInit /\ [][ReportNext]_vars

----------------------------------------------------------------------------
(* Reading the document back. *)

IndexOf(doc, sym) == CHOOSE i \in 1..Len(doc) : doc[i] = sym /\ \A j \in 1..(i - 1) : doc[j] # sym

\* the text between the blank line after header `from` and the blank line before
\* header `to`
Between(doc, from, to) == SubSeq(doc, IndexOf(doc, from) + 3, IndexOf(doc, to) - 3)

CodeFilesSection(doc) == Between(doc, "## Code Files", "## Runtime Errors")
RuntimeSection(doc) == Between(doc, "## Runtime Errors", "## Build Errors")
BuildSection(doc) == Between(doc, "## Build Errors", "## ESLint Errors")
EslintSection(doc) == Between(doc, "## ESLint Errors", "## TypeScript Errors")
TypescriptSection(doc) == SubSeq(doc, IndexOf(doc, "## TypeScript Errors") + 3, Len(doc) - 1)

\* where entry i of list starts in a text that holds the entries one per line break
RECURSIVE Offset(_, _)
Offset(list, i) == IF i = 1 THEN 0 ELSE Offset(list, i - 1) + Len(list[i - 1]) + 1

\* text holds the first k entries of list, in order, a line break between two, and
\* nothing else
HoldsFirst(text, list, k) ==
    /\ Len(text) = Offset(list, k + 1) - 1
    /\ \A i \in 1..k :
           /\ SubSeq(text, Offset(list, i) + 1, Offset(list, i) + Len(list[i])) = list[i]
           /\ i < k => text[Offset(list, i + 1)] = NL

Rendered(text, list, k, sentinel) ==
    IF Len(list) = 0 THEN text = <<sentinel>> ELSE HoldsFirst(text, list, k)

----------------------------------------------------------------------------
(* C4 *)

\* C4: in the report, the runtime, build and lint sections each hold the first
\* min(n, 5) entries of their list in order and none after the fifth, or the
\* category's sentinel when the list is empty; the type-check section holds all n
\* entries, or its sentinel.
C4_SectionsCapped ==
    (calls # <<>> /\ ~output.threw) =>
        /\ Rendered(RuntimeSection(output.text), summaryRuntimeErrors,
                    Min(Len(summaryRuntimeErrors), 5), "No runtime errors found.")
        /\ Rendered(BuildSection(output.text), buildErrors,
                    Min(Len(buildErrors), 5), "No build errors found.")
        /\ Rendered(EslintSection(output.text), eslintErrors,
                    Min(Len(eslintErrors), 5), "No ESLint errors found.")
        /\ Rendered(TypescriptSection(output.text), typescriptErrors,
                    Len(typescriptErrors), "No TypeScript errors found.")

\* A report made from six lint entries, the sixth unlike the fifth, and two
\* type-check entries.
C4_Witness ==
    /\ calls # <<>> /\ ~output.threw
    /\ Len(eslintErrors) = 6
    /\ eslintErrors[6] # eslintErrors[5]
    /\ Len(typescriptErrors) = 2

----------------------------------------------------------------------------
(* C8 *)

----------------------------------------------------------------------------
(* The diagnostics collectors. *)

MaxRecords == 3

LintFile(path, messages) ==
    JObj(<< <<"filePath", JStr(path)>>, <<"messages", JArr(messages)>> >>)

LintMessage(line, rule, text) ==
    JObj(<< <<"line", JNum(line)>>, <<"ruleId", rule>>, <<"message", JStr(<<text>>)>> >>)

\* the file records the linter may print: one with a message, one with two (the
\* second a parse error, whose ruleId is null), one without its messages array
LintRecords ==
    {LintFile(<<"/", "r", "/", "a">>, <<LintMessage(1, JStr(<<"r1">>), "m1")>>),
     LintFile(<<"/", "r", "/", "i">>,
              <<LintMessage(2, JStr(<<"r2">>), "m2"), LintMessage(3, JNull, "m3")>>),
     JObj(<< <<"filePath", JStr(<<"/", "r", "/", "a">>)>> >>)}

\* the JSON documents the linter may print: arrays of file records, and a document
\* that is no array
LintDocs == {JArr(recs) : recs \in Strings(LintRecords, MaxRecords)} \cup {JObj(<<>>)}

LintTable == JsonTable(LintDocs)

\* what the linter may write to its standard output: a document, nothing at all, a
\* document cut short, or a message that is no JSON
LintTexts ==
    {JSONStringify(d) : d \in LintDocs}
      \cup {<<>>, <<"[", "{">>, <<"Oops! Something went wrong!">>}

\* file.messages.forEach(...): the lines pushed, and whether a message threw
RECURSIVE EachMessage(_, _, _)
EachMessage(relativePath, messages, errors) ==
    IF messages = <<>> THEN [threw |-> FALSE, errors |-> errors]
    ELSE LET message == Head(messages)
         IN  IF message.t \in {"null", "undefined"}
             THEN [threw |-> TRUE, errors |-> errors]
             ELSE EachMessage(relativePath, Tail(messages),
                     Append(errors,
                            <<"[">> \o relativePath \o <<"] Line ">>
                              \o ToText(Prop(message, "line")) \o <<": ">>
                              \o ToText(Prop(message, "message")) \o <<" (">>
                              \o ToText(Prop(message, "ruleId")) \o <<")">>))

\* parsedOutput.forEach(...): a record that is null, has no string filePath or no
\* messages array throws, and the throw ends the loop
RECURSIVE EachFile(_, _)
EachFile(files, errors) ==
    IF files = <<>> THEN [threw |-> FALSE, errors |-> errors]
    ELSE LET file == Head(files)
         IN  IF \/ file.t \in {"null", "undefined"}
                \/ Prop(file, "filePath").t # "str"
                \/ Prop(file, "messages").t # "arr"
             THEN [threw |-> TRUE, errors |-> errors]
             ELSE LET done == EachMessage(pathRelative(dirname, Prop(file, "filePath").v),
                                          Prop(file, "messages").v, errors)
                  IN  IF done.threw THEN done ELSE EachFile(Tail(files), done.errors)

\* a parser that hands back the text it could not parse as its one error line
parseESLintOutputRaw(text) ==
    IF JSONParseIn(LintTable, text).ok THEN <<>> ELSE <<text>>

\* the try block of parseESLintOutput: threw is true when the catch block ran
ParseLint(text) ==
    LET parsed == JSONParseIn(LintTable, text)
    IN  IF ~parsed.ok \/ parsed.value.t # "arr"
        THEN [threw |-> TRUE, errors |-> <<>>]
        ELSE EachFile(parsed.value.v, <<>>)

\* parseESLintOutput(output): eslintErrors as it is when the function returns
parseESLintOutput(text) == ParseLint(text).errors

\* line.includes("error TS")
IsTypescriptError(line) == \E i \in 1..Len(line) : line[i] = "error TS"

\* summarizeTypescriptErrors(output)
summarizeTypescriptErrors(text) == SelectSeq(Split(Trim(text), NL), IsTypescriptError)

\* the callback of runtimeErrors.map: error.split throws when error is no string
summarizeRuntimeError(error) ==
    LET lines == Split(error.v, NL)
        firstLine == Trim(lines[1])
        frames == SelectSeq(Tail(lines), LAMBDA line : \E i \in 1..Len(line) : line[i] = "at ")
        fileInfo == IF frames = <<>> THEN <<"undefined">> ELSE frames[1]
    IN  <<"- ">> \o firstLine \o <<NL, "  ">> \o fileInfo

----------------------------------------------------------------------------
(* The content renderer. *)

OutputName == <<"o", "u", "t", "p", "u", "t", ".", "m", "d">>

\* fs.readFileSync(filePath, "utf-8") in the tree (every path read is one the
\* enumerator found there)
RECURSIVE ReadFile(_, _, _)
ReadFile(dirPath, listing, path) ==
    IF listing = <<>> THEN <<>>
    ELSE LET e == Head(listing)
             p == pathJoin(dirPath, e.name)
         IN  IF p = path THEN e.text
             ELSE IF e.isDir /\ StartsWith(path, p \o <<"/">>)
                  THEN ReadFile(p, e.entries, path)
                  ELSE ReadFile(dirPath, Tail(listing), path)

\* getFileContentWithStructure(filePath), the files read from tree
getFileContentWithStructure(path, tree) ==
    LET relativeFilePath == pathRelative(dirname, path)
        content == Trim(ReadFile(dirname, tree, path))
    IN  IF relativeFilePath = OutputName THEN <<>>
        ELSE IF Len(content) = 0 THEN <<>>
             ELSE <<"[">> \o relativeFilePath \o <<"]", NL>> \o content \o <<NL, "...", NL>>

----------------------------------------------------------------------------
(* runCommand: a child process, its events and the promise they settle. *)

\* spawn(command, args): the child runs and will write one of texts to its standard
\* output, or it could not be spawned (the one "error" event of a child that is
\* neither killed nor sent messages).  errorOutput is collected by runCommand and
\* read by no caller; it is left out.
Spawned(texts) ==
    {[state |-> "running", toWrite |-> t, output |-> <<>>, promise |-> "pending"] :
        t \in texts}
      \cup {[state |-> "failed", toWrite |-> <<>>, output |-> <<>>, promise |-> "pending"]}

\* the sizes of the chunk the next "data" event may carry: what is left, or half of it
ChunkSizes(child) ==
    {Len(child.toWrite)} \cup (IF Len(child.toWrite) > 1 THEN {Len(child.toWrite) \div 2} ELSE {})

\* child.stdout.on("data"): output += data.toString()
OnData(child, n) ==
    [child EXCEPT !.output = @ \o SubSeq(child.toWrite, 1, n),
                  !.toWrite = SubSeq(child.toWrite, n + 1, Len(child.toWrite))]

\* child.on("error"): reject(error)
OnError(child) == [child EXCEPT !.promise = IF @ = "pending" THEN "rejected" ELSE @]

\* child.on("close"): resolve({ output, errorOutput }), once the process has ended
\* and its streams are closed
OnClose(child) ==
    [child EXCEPT !.state = "closed", !.promise = IF @ = "pending" THEN "resolved" ELSE @]

\* a caller that goes on without waiting for the promise
SettledOrNot(child) == TRUE

\* await runCommand(...) goes on once the promise is settled
Settled(child) == child.promise # "pending"

----------------------------------------------------------------------------
(* The async function that runs the whole. *)

ProjectDir == <<"/", "r">>

\* .gitignore holds the one line "/a/"
MainIgnoreFile == FileOf(<<"/", "a", "/", NL>>)

MainTrees ==
    {<<File(<<"a">>, <<"x", NL>>), File(<<"i">>, <<" ", NL>>), File(<<".", "a", "i">>, <<"b">>)>>,
     <<Dir(<<"a">>, <<File(<<"i">>, <<"y", NL, "z">>)>>), File(<<"i">>, <<"x", NL>>)>>}

MainPackageFiles == {NoFile, FileOf(JSONStringify(PkgDoc("p1", "1"))), FileOf(<<"{">>)}

Stack == JStr(<<"TypeError: x", NL, "    ", "at ", "f (a.js:1:1)", NL, "    ", "at ", "g (b.js:2:2)">>)
StackBare == JStr(<<"Error: y">>)

\* window.capturedErrors: error.stack of each uncaught error; null where the thrown
\* value had no stack
CapturedSamples == {<<>>, <<Stack, StackBare>>, <<Stack, JNull, StackBare>>}

\* the lines of the error overlay
OverlaySamples == {<<>>, <<<<"Failed to compile.">>, <<"./src/a.js">>>>}

TscTexts ==
    {<<>>,
     <<"a.ts(1,1): ", "error TS", "2322: m", NL, "Files: ", "10", NL,
       "b.ts(2,2): ", "error TS", "2304: n", NL>>}

MainInit ==
    /\ pc = "launch"
    /\ excludeFiles = ExcludeFilesOf(MainIgnoreFile)
    /\ filePath = <<>> /\ included = TRUE
    /\ dirname = ProjectDir
    /\ fsTree \in MainTrees
    /\ filePaths = <<>>
    /\ packageJson \in MainPackageFiles
    /\ codeFiles = <<>>
    /\ summaryRuntimeErrors = <<>> /\ buildErrors = <<>>
    /\ eslintErrors = <<>> /\ typescriptErrors = <<>>
    /\ summary = <<>>
    /\ output = NoOutput
    /\ calls = <<>>
    /\ MainIdle

fixedVars == <<excludeFiles, matchVars, dirname, fsTree, packageJson>>

\* the step at `from` returns and the function goes on at `to`
Goes(from, to) == pc = from /\ pc' = to /\ thrownAt' = thrownAt

\* the step at `from` throws outside any try block: the async function rejects
Throws(from) == pc = from /\ pc' = "rejected" /\ thrownAt' = from

\* line 240: const browser = await puppeteer.launch()
Launch ==
    /\ \/ Goes("launch", "newPage") /\ browser' = "open"
       \/ Throws("launch") /\ browser' = browser
    /\ UNCHANGED <<fixedVars, filePaths, codeFiles, diagVars, summary, output, calls,
                   runtimeErrors, lintChild, tscChild, outputFile, clipboard, log>>

\* lines 241-258: newPage, evaluateOnNewDocument, goto, waitForSelector, the delay
OpenPage ==
    /\ \/ Goes("newPage", "inject") \/ Throws("newPage")
       \/ Goes("inject", "goto") \/ Throws("inject")
       \/ Goes("goto", "waitForSelector") \/ Throws("goto")
       \/ Goes("waitForSelector", "delay") \/ Throws("waitForSelector")
       \/ Goes("delay", "captureRuntime")
    /\ UNCHANGED <<fixedVars, filePaths, codeFiles, diagVars, summary, output, calls,
                   browser, runtimeErrors, lintChild, tscChild, outputFile, clipboard, log>>

\* line 261: const runtimeErrors = await page.evaluate(...)
CaptureRuntime ==
    /\ \/ Goes("captureRuntime", "summarizeRuntime") /\ runtimeErrors' \in CapturedSamples
       \/ Throws("captureRuntime") /\ runtimeErrors' = runtimeErrors
    /\ UNCHANGED <<fixedVars, filePaths, codeFiles, diagVars, summary, output, calls,
                   browser, lintChild, tscChild, outputFile, clipboard, log>>

\* lines 266-271: const summaryRuntimeErrors = runtimeErrors.map(...)
SummarizeRuntime ==
    /\ IF \A i \in 1..Len(runtimeErrors) : runtimeErrors[i].t = "str"
       THEN /\ Goes("summarizeRuntime", "captureBuild")
            /\ summaryRuntimeErrors' =
                   [i \in 1..Len(runtimeErrors) |-> summarizeRuntimeError(runtimeErrors[i])]
       ELSE /\ Throws("summarizeRuntime")
            /\ summaryRuntimeErrors' = summaryRuntimeErrors
    /\ UNCHANGED <<fixedVars, filePaths, codeFiles, buildErrors, eslintErrors,
                   typescriptErrors, summary, output, calls, browser, runtimeErrors,
                   lintChild, tscChild, outputFile, clipboard, log>>

\* lines 274-285: the build errors of the overlay, inside try/catch
CaptureBuild ==
    /\ Goes("captureBuild", "runLint")
    /\ \/ buildErrors' \in OverlaySamples /\ log' = log
       \/ buildErrors' = <<>> /\ log' = Append(log, "Failed to retrieve build errors:")
    /\ UNCHANGED <<fixedVars, filePaths, codeFiles, summaryRuntimeErrors, eslintErrors,
                   typescriptErrors, summary, output, calls, browser, runtimeErrors,
                   lintChild, tscChild, outputFile, clipboard>>

\* line 304: runCommand("node", [eslintPath, ...eslintArgs]) spawns the child
RunLint ==
    /\ Goes("runLint", "awaitLint")
    /\ lintChild' \in Spawned(LintTexts)
    /\ UNCHANGED <<fixedVars, filePaths, codeFiles, diagVars, summary, output, calls,
                   browser, runtimeErrors, tscChild, outputFile, clipboard, log>>

\* the events of the ESLint child
LintEvent ==
    /\ \/ /\ lintChild.state = "running" /\ lintChild.toWrite # <<>>
          /\ \E n \in ChunkSizes(lintChild) : lintChild' = OnData(lintChild, n)
       \/ /\ lintChild.state = "failed" /\ lintChild.promise = "pending"
          /\ lintChild' = OnError(lintChild)
       \/ /\ lintChild.state = "running" /\ lintChild.toWrite = <<>>
          /\ lintChild' = OnClose(lintChild)
    /\ UNCHANGED <<pc, fixedVars, filePaths, codeFiles, diagVars, summary, output, calls,
                   browser, runtimeErrors, tscChild, outputFile, clipboard, log, thrownAt>>

\* lines 304-311: the await ends; eslintErrors = parseESLintOutput(eslintOutput), or
\* the catch block
AwaitLint ==
    /\ Settled(lintChild)
    /\ Goes("awaitLint", "runTsc")
    /\ IF lintChild.promise = "rejected"
       THEN /\ eslintErrors' = <<>>
            /\ log' = Append(log, "Failed to run ESLint:")
       ELSE /\ eslintErrors' = parseESLintOutput(lintChild.output)
            /\ log' = IF ParseLint(lintChild.output).threw
                      THEN Append(log, "Failed to parse ESLint output:")
                      ELSE log
    /\ UNCHANGED <<fixedVars, filePaths, codeFiles, summaryRuntimeErrors, buildErrors,
                   typescriptErrors, summary, output, calls, browser, runtimeErrors,
                   lintChild, tscChild, outputFile, clipboard>>

\* line 324: runCommand(typescriptPath, typescriptArgs) spawns the child
RunTsc ==
    /\ Goes("runTsc", "awaitTsc")
    /\ tscChild' \in Spawned(TscTexts)
    /\ UNCHANGED <<fixedVars, filePaths, codeFiles, diagVars, summary, output, calls,
                   browser, runtimeErrors, lintChild, outputFile, clipboard, log>>

\* the events of the TypeScript child
TscEvent ==
    /\ \/ /\ tscChild.state = "running" /\ tscChild.toWrite # <<>>
          /\ \E n \in ChunkSizes(tscChild) : tscChild' = OnData(tscChild, n)
       \/ /\ tscChild.state = "failed" /\ tscChild.promise = "pending"
          /\ tscChild' = OnError(tscChild)
       \/ /\ tscChild.state = "running" /\ tscChild.toWrite = <<>>
          /\ tscChild' = OnClose(tscChild)
    /\ UNCHANGED <<pc, fixedVars, filePaths, codeFiles, diagVars, summary, output, calls,
                   browser, runtimeErrors, lintChild, outputFile, clipboard, log, thrownAt>>

\* lines 324-331: the await ends; typescriptErrors = summarizeTypescriptErrors(...), or
\* the catch block
AwaitTsc ==
    /\ Settled(tscChild)
    /\ Goes("awaitTsc", "truncate")
    /\ IF tscChild.promise = "rejected"
       THEN /\ typescriptErrors' = <<>>
            /\ log' = Append(log, "Failed to run TypeScript:")
       ELSE /\ typescriptErrors' = summarizeTypescriptErrors(tscChild.output)
            /\ log' = log
    /\ UNCHANGED <<fixedVars, filePaths, codeFiles, summaryRuntimeErrors, buildErrors,
                   eslintErrors, summary, output, calls, browser, runtimeErrors,
                   lintChild, tscChild, outputFile, clipboard>>

\* line 334: fs.writeFileSync("output.md", "")
Truncate ==
    /\ \/ Goes("truncate", "enumerate") /\ outputFile' = FileOf(<<>>)
       \/ Throws("truncate") /\ outputFile' = outputFile
    /\ UNCHANGED <<fixedVars, filePaths, codeFiles, diagVars, summary, output, calls,
                   browser, runtimeErrors, lintChild, tscChild, clipboard, log>>

\* the tree as the enumerator finds it: output.md, once written, is an entry of the
\* project directory (the function runs with __dirname as its working directory)
DiskTree ==
    IF outputFile.exists /\ OutputName \notin NamesOf(fsTree)
    THEN Append(fsTree, File(OutputName, outputFile.text))
    ELSE fsTree

\* line 337: const filePaths = getFilePaths(__dirname)
Enumerate ==
    /\ \/ /\ Goes("enumerate", "render")
          /\ filePaths' = getFilePaths(dirname, DiskTree, <<>>, excludeFiles)
       \/ Throws("enumerate") /\ filePaths' = filePaths
    /\ UNCHANGED <<fixedVars, codeFiles, diagVars, summary, output, calls,
                   browser, runtimeErrors, lintChild, tscChild, outputFile, clipboard, log>>

\* line 338: const codeFiles = filePaths.map(getFileContentWithStructure)
Render ==
    /\ \/ /\ Goes("render", "summary")
          /\ codeFiles' = [k \in 1..Len(filePaths) |->
                              getFileContentWithStructure(filePaths[k], DiskTree)]
       \/ Throws("render") /\ codeFiles' = codeFiles
    /\ UNCHANGED <<fixedVars, filePaths, diagVars, summary, output, calls,
                   browser, runtimeErrors, lintChild, tscChild, outputFile, clipboard, log>>

\* lines 340-345: the summary
SummaryText ==
    <<"- Total files: ", ToString(Len(filePaths)), NL,
      "- Lines of code: ", ToString(Len(Split(Join(codeFiles, <<>>), NL))), NL,
      "- Runtime errors: ", ToString(Len(summaryRuntimeErrors)), NL,
      "- Build errors: ", ToString(Len(buildErrors)), NL,
      "- ESLint errors: ", ToString(Len(eslintErrors)), NL,
      "- TypeScript errors: ", ToString(Len(typescriptErrors))>>

Summarize ==
    /\ Goes("summary", "assemble")
    /\ summary' = SummaryText
    /\ UNCHANGED <<fixedVars, filePaths, codeFiles, diagVars, output, calls,
                   browser, runtimeErrors, lintChild, tscChild, outputFile, clipboard, log>>

\* lines 348-355: const output = generateOutput(...)
Assemble ==
    /\ LET made == generateOutput(codeFiles, summaryRuntimeErrors, buildErrors,
                                  eslintErrors, typescriptErrors, summary)
       IN  /\ IF made.threw THEN Throws("assemble") ELSE Goes("assemble", "write")
           /\ output' = made
           /\ calls' = Append(calls, [pkg |-> packageJson, out |-> made])
    /\ UNCHANGED <<fixedVars, filePaths, codeFiles, diagVars, summary,
                   browser, runtimeErrors, lintChild, tscChild, outputFile, clipboard, log>>

\* line 358: fs.writeFileSync("output.md", output)
Write ==
    /\ \/ Goes("write", "clipboard") /\ outputFile' = FileOf(output.text)
       \/ Throws("write") /\ outputFile' = outputFile
    /\ UNCHANGED <<fixedVars, filePaths, codeFiles, diagVars, summary, output, calls,
                   browser, runtimeErrors, lintChild, tscChild, clipboard, log>>

\* line 361: await copyToClipboard(output)
CopyToClipboard ==
    /\ \/ Goes("clipboard", "print") /\ clipboard' = output.text
       \/ Throws("clipboard") /\ clipboard' = clipboard
    /\ UNCHANGED <<fixedVars, filePaths, codeFiles, diagVars, summary, output, calls,
                   browser, runtimeErrors, lintChild, tscChild, outputFile, log>>

\* lines 363-365: the three console.log calls (the token count itself is not kept)
PrintSummary ==
    /\ Goes("print", "close")
    /\ log' = log \o <<"Output generated and copied to clipboard successfully!",
                       "summary", "- Token count:">>
    /\ UNCHANGED <<fixedVars, filePaths, codeFiles, diagVars, summary, output, calls,
                   browser, runtimeErrors, lintChild, tscChild, outputFile, clipboard>>

\* line 367: await browser.close()
CloseBrowser ==
    /\ \/ Goes("close", "done") /\ browser' = "closed"
       \/ Throws("close") /\ browser' = browser
    /\ UNCHANGED <<fixedVars, filePaths, codeFiles, diagVars, summary, output, calls,
                   runtimeErrors, lintChild, tscChild, outputFile, clipboard, log>>

Next ==
    \/ Launch \/ OpenPage \/ CaptureRuntime \/ SummarizeRuntime \/ CaptureBuild
    \/ RunLint \/ LintEvent \/ AwaitLint
    \/ RunTsc \/ TscEvent \/ AwaitTsc
    \/ Truncate \/ Enumerate \/ Render \/ Summarize \/ Assemble
    \/ Write \/ CopyToClipboard \/ PrintSummary \/ CloseBrowser

Spec == MainInit /\ [][Next]_vars

----------------------------------------------------------------------------
(* Where a run stands. *)

StepOrder ==
    <<"launch", "newPage", "inject", "goto", "waitForSelector", "delay",
      "captureRuntime", "summarizeRuntime", "captureBuild",
      "runLint", "awaitLint", "runTsc", "awaitTsc",
      "truncate", "enumerate", "render", "summary", "assemble",
      "write", "clipboard", "print", "close", "done">>

StepIndex(step) == CHOOSE i \in 1..Len(StepOrder) : StepOrder[i] = step

\* the run has finished every step before `step` (it may have been rejected at it
\* or later)
Past(step) ==
    IF pc = "rejected" THEN StepIndex(thrownAt) >= StepIndex(step)
    ELSE StepIndex(pc) >= StepIndex(step)

Ended == pc \in {"done", "rejected"}

----------------------------------------------------------------------------
(* C2 *)

\* C2: once the browser has been launched, every run that ends, by returning or by
\* a step throwing, has closed it.
C2_SessionClosedOnEveryExit ==
    (Ended /\ browser # "none") => browser = "closed"

----------------------------------------------------------------------------
(* C3 *)

\* C3: a failure of one diagnostics source (the session's capture of runtime or build
\* errors, the linter, the type checker) empties that source's list and the run goes
\* on: no run is rejected at the capture of the runtime errors, at their summary, or
\* at a subprocess.
C3_DiagnosticsFailureNeverAborts ==
    thrownAt \notin {"captureRuntime", "summarizeRuntime", "captureBuild",
                     "runLint", "awaitLint", "runTsc", "awaitTsc"}

----------------------------------------------------------------------------
(* C5 *)

LintOutputInvalid ==
    /\ lintChild.promise = "resolved"
    /\ ~JSONParseIn(LintTable, lintChild.output).ok

\* C5: when the linter's output is no valid JSON, parseESLintOutput returns an empty
\* list, the run is not rejected there, and the lint section of the assembled report
\* is exactly "No ESLint errors found.".
C5_InvalidLintJsonGivesSentinel ==
    (LintOutputInvalid /\ Past("runTsc")) =>
        /\ eslintErrors = <<>>
        /\ thrownAt # "awaitLint"
        /\ (Past("write") => EslintSection(output.text) = <<"No ESLint errors found.">>)

\* A run that ended after the linter wrote a truncated document.
C5_Witness ==
    /\ pc = "done"
    /\ lintChild.output = <<"[", "{">>
    /\ LintOutputInvalid
    /\ outputFile.text = output.text

----------------------------------------------------------------------------
(* C7 *)

\* C7: the list of blocks given to the assembler holds no empty block: the result of
\* getFileContentWithStructure for an empty file (or output.md) is dropped.
C7_NoEmptyBlock ==
    Past("summary") => \A k \in 1..Len(codeFiles) : codeFiles[k] # <<>>

----------------------------------------------------------------------------
(* C9 *)

\* the lines a document calls for when each malformed record or message is skipped
\* and every well-formed message gives one line
RECURSIVE WellFormedMessages(_)
WellFormedMessages(files) ==
    IF files = <<>> THEN 0
    ELSE LET file == Head(files)
             n == IF Prop(file, "filePath").t = "str" /\ Prop(file, "messages").t = "arr"
                  THEN Len(SelectSeq(Prop(file, "messages").v,
                                     LAMBDA m : m.t \notin {"null", "undefined"}))
                  ELSE 0
         IN  n + WellFormedMessages(Tail(files))

\* C9: when the linter's JSON parses, a malformed record is left out alone:
\* parseESLintOutput gives one line for every well-formed message, those before and
\* those after the malformed record.
C9_MalformedRecordSkipped ==
    LET parsed == JSONParseIn(LintTable, lintChild.output)
    IN  (Past("runTsc") /\ lintChild.promise = "resolved" /\ parsed.ok
           /\ parsed.value.t = "arr") =>
            Len(eslintErrors) = WellFormedMessages(parsed.value.v)

----------------------------------------------------------------------------
(* C10 *)

\* C10: the steps of a run follow one another in the order launch, capture of the
\* runtime errors, capture of the build errors, linter, type checker, enumeration
\* and rendering, summary, assembly, write, clipboard, print; the linter child has
\* closed before the type-checker child is spawned, and no child is running once
\* the enumeration begins.
C10_StepsInOrder ==
    /\ [][pc' # pc => (pc' = "rejected" \/ StepIndex(pc') = StepIndex(pc) + 1)]_vars
    /\ [](tscChild.state # "none" =>
             (lintChild.state \in {"closed", "failed"} /\ lintChild.promise # "pending"))
    /\ [](Past("truncate") =>
             (lintChild.state # "running" /\ tscChild.state # "running"))

\* A run that went through every step, both children having run and closed.
C10_Witness ==
    /\ pc = "done"
    /\ lintChild.state = "closed" /\ lintChild.output # <<>>
    /\ tscChild.state = "closed" /\ tscChild.output # <<>>
    /\ clipboard = output.text

====
